---- MODULE Spec2Model ----
(***************************************************************************)
(* A model of tech_support_agent.py: the SupportQuery / SupportResponse /  *)
(* KnowledgeBase records, the two agent tools (search_knowledge_base and   *)
(* check_severity) and the query handler handle_support_query, which hands *)
(* a prompt and a freshly built knowledge base to an external agent and    *)
(* returns whatever structured answer the agent produced.                  *)
(*                                                                         *)
(* Python strings are TLA+ strings; str.lower(), the `in` substring test   *)
(* and the f-string formatting of an integer are computed character by     *)
(* character.  Python dicts are sequences of <<key, value>> pairs where    *)
(* insertion order matters to the code (the literal being iterated) and    *)
(* functions where it does not (a returned mapping).                       *)
(***************************************************************************)
EXTENDS Integers, Sequences, FiniteSets, TLC

VARIABLES
    clock,              \* the wall clock, datetime.datetime.now()
    default_timestamp,  \* the default value of the field SupportQuery.timestamp
    heap,               \* the KnowledgeBase objects: 0 is the module-level kb, q the one query q built
    query,              \* the SupportQuery object of each query (created_at: when it was constructed)
    pc,                 \* where each query's handle_support_query is
    deps,               \* the KnowledgeBase object each query passed to agent.run as deps
    runs,               \* how many times each query's handler has called agent.run
    lastCall,           \* the latest tool call of the agent: tool, arguments, result
    outcome,            \* how agent.run ended for each query: "none", "data" or "error"
    response,           \* what handle_support_query returned to the caller
    args,               \* the arguments of a direct tool call
    ret                 \* the tool called directly and its result

vars == <<clock, default_timestamp, heap, query, pc, deps, runs,
          lastCall, outcome, response, args, ret>>

handlerVars == <<clock, default_timestamp, heap, query, pc, deps, runs,
                 lastCall, outcome, response>>

(***************************************************************************)
(* Bounds of the model.                                                    *)
(***************************************************************************)
MaxQueries == 2
MaxClock == 1
MaxFragments == 2

QueryIds == 1 .. MaxQueries

(***************************************************************************)
(* Python string primitives.                                               *)
(***************************************************************************)
UpperLetters == "ABCDEFGHIJKLMNOPQRSTUVWXYZ"
LowerLetters == "abcdefghijklmnopqrstuvwxyz"

\* the lower-case form of each upper-case ASCII letter
UpperToLower ==
    [c \in {SubSeq(UpperLetters, i, i) : i \in 1 .. Len(UpperLetters)} |->
        LET i == CHOOSE j \in 1 .. Len(UpperLetters) : SubSeq(UpperLetters, j, j) = c
        IN  SubSeq(LowerLetters, i, i)]

\* str.lower() on one (ASCII) character.
LowerChar(c) == IF c \in DOMAIN UpperToLower THEN UpperToLower[c] ELSE c

\* str.lower()
RECURSIVE Lower(_)
Lower(s) ==
    IF Len(s) = 0 THEN ""
    ELSE LowerChar(SubSeq(s, 1, 1)) \o Lower(SubSeq(s, 2, Len(s)))

\* needle in hay
Contains(needle, hay) ==
    \E i \in 0 .. (Len(hay) - Len(needle)) :
        SubSeq(hay, i + 1, i + Len(needle)) = needle

Digits == "0123456789"

\* f"{n}" for an integer n >= 0
RECURSIVE IntToStr(_)
IntToStr(n) ==
    IF n < 10 THEN SubSeq(Digits, n + 1, n + 1)
    ELSE IntToStr(n \div 10) \o SubSeq(Digits, (n % 10) + 1, (n % 10) + 1)

Max(a, b) == IF a >= b THEN a ELSE b

(***************************************************************************)
(* The knowledge base literal, written twice in the source with the same   *)
(* content (module level and inside the handler).                          *)
(***************************************************************************)
KnowledgeBaseLiteral ==
    [ alive        |-> TRUE,
      product      |-> "CloudDB",
      known_issues |-> << <<"Can't connect to database", "Check connection string and firewall rules">>,
                          <<"Database crash", "Verify system resources and restart service">>,
                          <<"Slow queries", "Analyze query performance and optimize indexes">> >>,
      solutions    |-> << <<"connection", <<"Check credentials", "Verify network access", "Test port availability">> >>,
                          <<"performance", <<"Run diagnostics", "Check resource usage", "Optimize queries">> >>,
                          <<"crash", <<"Collect logs", "Check error messages", "Restart service">> >> >> ]

NoKb == [alive |-> FALSE]

(***************************************************************************)
(* search_knowledge_base                                                   *)
(***************************************************************************)
ProductNotFound == ("error" :> "Product not found in knowledge base")

EmptyDict == [k \in {} |-> ""]

\* a variant that lower-cases the issue but not the key
issue_matches_key_case(issue, known_issue) == Contains(Lower(issue), known_issue)

\* a variant that also accepts a key contained in the issue
issue_matches_either_way(issue, known_issue) ==
    \/ Contains(Lower(issue), Lower(known_issue))
    \/ Contains(Lower(known_issue), Lower(issue))

\* issue.lower() in known_issue.lower()
issue_matches(issue, known_issue) == Contains(Lower(issue), Lower(known_issue))

\* the loop over kb.known_issues.items(), entries i .. end, starting from matches
RECURSIVE collect_matches(_, _, _, _)
collect_matches(items, i, issue, matches) ==
    IF i > Len(items) THEN matches
    ELSE collect_matches(items, i + 1, issue,
            IF issue_matches(issue, items[i][1])
            THEN (items[i][1] :> items[i][2]) @@ matches
            ELSE matches)

\* a variant that compares the product names without regard to case
product_mismatch_caseless(product, kbase) == Lower(product) # Lower(kbase.product)

product_mismatch(product, kbase) == product # kbase.product

search_knowledge_base(kbase, issue, product) ==
    IF product_mismatch(product, kbase) THEN ProductNotFound
    ELSE collect_matches(kbase.known_issues, 1, issue, EmptyDict)

(***************************************************************************)
(* check_severity                                                          *)
(***************************************************************************)
severity_levels == ("low" :> 1) @@ ("medium" :> 2) @@ ("high" :> 3) @@ ("critical" :> 4)

critical_keywords == <<"crash", "data loss", "security", "breach">>

\* a variant that looks the label up as written: severity_levels.get(severity, 1)
severity_lookup_case_sensitive(severity) ==
    IF severity \in DOMAIN severity_levels
    THEN severity_levels[severity]
    ELSE 1

\* severity_levels.get(severity.lower(), 1)
severity_lookup(severity) ==
    IF Lower(severity) \in DOMAIN severity_levels
    THEN severity_levels[Lower(severity)]
    ELSE 1

\* any(keyword in issue.lower() for keyword in critical_keywords)
has_critical_keyword(issue) ==
    \E i \in 1 .. Len(critical_keywords) : Contains(critical_keywords[i], Lower(issue))

\* a variant that sets the priority to 3 on a keyword instead of raising it to 3
base_priority_overwrite(issue, severity) ==
    IF has_critical_keyword(issue)
    THEN 3
    ELSE severity_lookup(severity)

base_priority(issue, severity) ==
    IF has_critical_keyword(issue)
    THEN Max(severity_lookup(severity), 3)
    ELSE severity_lookup(severity)

\* a variant that escalates only above 3
needs_escalation_strict(priority) == priority > 3

needs_escalation(priority) == priority >= 3

estimated_time(priority) == IntToStr(priority * 2) \o "h"

check_severity(issue, severity) ==
    LET p == base_priority(issue, severity)
    IN  [ priority_level   |-> p,
          needs_escalation |-> needs_escalation(p),
          estimated_time   |-> estimated_time(p) ]

(***************************************************************************)
(* Inputs.  Issue texts are concatenations of at most MaxFragments         *)
(* fragments; the fragments are the known-issue keys, the text the         *)
(* demonstration query appends to one, pieces and case variants of the     *)
(* critical keywords, and pieces of the keys.                              *)
(***************************************************************************)
IssueFragments ==
    { "Can't connect to database", " after restart", "Database crash", "Slow queries",
      "connect", "QUERIES", "Data", " loss", "SECURITY", "breach" }

RECURSIVE Concats(_)
Concats(n) ==
    IF n = 0 THEN {""}
    ELSE LET shorter == Concats(n - 1)
         IN  shorter \cup {s \o f : s \in shorter, f \in IssueFragments}

IssueTexts == Concats(MaxFragments)

SeverityTexts ==
    { "low", "medium", "high", "critical", "LOW", "Medium", "hiGH", "CRITICAL",
      "", "urgent", "lowest", " low", "3" }

ProductTexts == { "CloudDB", "clouddb", "CLOUDDB", "OtherProduct", "" }

\* what the agent passes to a tool in the handler specification
AgentIssues == { "connect", "Database crash" }
AgentSeverities == { "low", "HIGH" }
AgentProducts == { "CloudDB", "clouddb" }

\* the SupportQuery fields a caller supplies: the demonstration query
QueryInputs ==
    { [issue |-> "Can't connect to database after restart", severity |-> "high",
       product |-> "CloudDB", user_id |-> "user123"] }

\* the structured answers the external agent may produce: any value that
\* passes the SupportResponse schema (str, List[str], bool, int, str); here one
\* that repeats a check_severity result, and ones that do not
AgentResponses ==
    { [ solution       |-> "Check connection string and firewall rules",
        next_steps     |-> <<"Check credentials", "Verify network access", "Test port availability">>,
        escalate       |-> pe[2],
        priority_level |-> pe[1],
        estimated_time |-> "6h" ] : pe \in {<<3, TRUE>>, <<1, FALSE>>, <<4, FALSE>>, <<7, TRUE>>} }

NoQuery == [created |-> FALSE]
NoResponse == [returned |-> FALSE]
NoCall == [tool |-> "none"]
NoArgs == [issue |-> "", severity |-> "", product |-> ""]
NoRet == [tool |-> "none"]
ModuleKb == 0
NoDeps == 0 - 1

(***************************************************************************)
(* State after the module is imported: the class bodies have run (the      *)
(* default of SupportQuery.timestamp has been evaluated), the module-level *)
(* knowledge base exists, no query has been made.                          *)
(***************************************************************************)
HandlerInit ==
    /\ clock = 0
    /\ default_timestamp = 0
    /\ heap = [i \in 0 .. MaxQueries |-> IF i = ModuleKb THEN KnowledgeBaseLiteral ELSE NoKb]
    /\ query = [q \in QueryIds |-> NoQuery]
    /\ pc = [q \in QueryIds |-> "none"]
    /\ deps = [q \in QueryIds |-> NoDeps]
    /\ runs = [q \in QueryIds |-> 0]
    /\ lastCall = NoCall
    /\ outcome = [q \in QueryIds |-> "none"]
    /\ response = [q \in QueryIds |-> NoResponse]

Init ==
    /\ HandlerInit
    /\ args = NoArgs
    /\ ret = NoRet

\* time passes
Tick ==
    /\ clock < MaxClock
    /\ clock' = clock + 1
    /\ UNCHANGED <<default_timestamp, heap, query, pc, deps, runs, lastCall, outcome, response, args, ret>>

\* SupportQuery(issue=..., severity=..., product=..., user_id=...)
SupportQuery(q, inp) ==
    /\ pc[q] = "none"
    /\ \A r \in QueryIds : r < q => pc[r] # "none"
    /\ query' = [query EXCEPT ![q] =
                    [ issue      |-> inp.issue,
                      severity   |-> inp.severity,
                      product    |-> inp.product,
                      user_id    |-> inp.user_id,
                      timestamp  |-> default_timestamp,
                      created_at |-> clock ]]
    /\ pc' = [pc EXCEPT ![q] = "created"]
    /\ UNCHANGED <<clock, default_timestamp, heap, deps, runs, lastCall, outcome, response, args, ret>>

\* a variant that passes the module-level knowledge base to agent.run
HandleStart_module_kb(q) ==
    /\ pc[q] = "created"
    /\ deps' = [deps EXCEPT ![q] = ModuleKb]
    /\ runs' = [runs EXCEPT ![q] = @ + 1]
    /\ pc' = [pc EXCEPT ![q] = "running"]
    /\ UNCHANGED <<clock, default_timestamp, heap, query, lastCall, outcome, response, args, ret>>

\* handle_support_query up to the await: build the knowledge base, call agent.run
HandleStart(q) ==
    /\ pc[q] = "created"
    /\ heap' = [heap EXCEPT ![q] = KnowledgeBaseLiteral]
    /\ deps' = [deps EXCEPT ![q] = q]
    /\ runs' = [runs EXCEPT ![q] = @ + 1]
    /\ pc' = [pc EXCEPT ![q] = "running"]
    /\ UNCHANGED <<clock, default_timestamp, query, lastCall, outcome, response, args, ret>>

\* the agent invokes the tool search_knowledge_base(ctx, issue, product)
AgentCallsSearch(q, issue, product) ==
    /\ pc[q] = "running"
    /\ lastCall' = [ tool |-> "search_knowledge_base", q |-> q,
                     issue |-> issue, product |-> product,
                     result |-> search_knowledge_base(heap[deps[q]], issue, product) ]
    /\ UNCHANGED <<clock, default_timestamp, heap, query, pc, deps, runs, outcome, response, args, ret>>

\* the agent invokes the tool check_severity(ctx, issue, severity)
AgentCallsSeverity(q, issue, severity) ==
    /\ pc[q] = "running"
    /\ lastCall' = [ tool |-> "check_severity", q |-> q,
                     issue |-> issue, severity |-> severity,
                     result |-> check_severity(issue, severity) ]
    /\ UNCHANGED <<clock, default_timestamp, heap, query, pc, deps, runs, outcome, response, args, ret>>

\* agent.run returns; the handler returns result.data
HandleReturn(q, data) ==
    /\ pc[q] = "running"
    /\ outcome' = [outcome EXCEPT ![q] = "data"]
    /\ response' = [response EXCEPT ![q] = data]
    /\ pc' = [pc EXCEPT ![q] = "returned"]
    /\ UNCHANGED <<clock, default_timestamp, heap, query, deps, runs, lastCall, args, ret>>

\* a variant in which the handler catches the failure and calls agent.run again
HandleRaise_retry(q) ==
    /\ pc[q] = "running"
    /\ outcome' = [outcome EXCEPT ![q] = "error"]
    /\ runs' = [runs EXCEPT ![q] = @ + 1]
    /\ UNCHANGED <<clock, default_timestamp, heap, query, pc, deps, lastCall, response, args, ret>>

\* agent.run raises (service unreachable, output failing validation); the
\* handler has no try/except, the exception reaches the caller
HandleRaise(q) ==
    /\ pc[q] = "running"
    /\ outcome' = [outcome EXCEPT ![q] = "error"]
    /\ pc' = [pc EXCEPT ![q] = "failed"]
    /\ UNCHANGED <<clock, default_timestamp, heap, query, deps, runs, lastCall, response, args, ret>>

Next ==
    \/ Tick
    \/ \E q \in QueryIds, inp \in QueryInputs : SupportQuery(q, inp)
    \/ \E q \in QueryIds : HandleStart(q)
    \/ \E q \in QueryIds, issue \in AgentIssues, product \in AgentProducts : AgentCallsSearch(q, issue, product)
    \/ \E q \in QueryIds, issue \in AgentIssues, severity \in AgentSeverities : AgentCallsSeverity(q, issue, severity)
    \/ \E q \in QueryIds, data \in AgentResponses : HandleReturn(q, data)
    \/ \E q \in QueryIds : HandleRaise(q)

Spec == Init /\ [][Next]_vars

(***************************************************************************)
(* The two tools as pure functions: the arguments are drawn at the start,  *)
(* one call is made with the module-level knowledge base as ctx.deps.      *)
(***************************************************************************)
ToolsInit ==
    /\ HandlerInit
    /\ args \in [issue : IssueTexts, severity : SeverityTexts, product : ProductTexts]
    /\ ret = NoRet

CallSearch ==
    /\ ret.tool = "none"
    /\ ret' = [ tool |-> "search_knowledge_base",
                result |-> search_knowledge_base(heap[ModuleKb], args.issue, args.product) ]
    /\ UNCHANGED <<handlerVars, args>>

CallSeverity ==
    /\ ret.tool = "none"
    /\ ret' = [ tool |-> "check_severity",
                result |-> check_severity(args.issue, args.severity) ]
    /\ UNCHANGED <<handlerVars, args>>

ToolsNext == CallSearch \/ CallSeverity

SpecTools == ToolsInit /\ [][ToolsNext]_vars

(***************************************************************************)
(* Properties of the tools, checked under SpecTools.                       *)
(***************************************************************************)
SeverityLabels == {"low", "medium", "high", "critical"}

LabelValue(label) ==
    CASE label = "low" -> 1
      [] label = "medium" -> 2
      [] label = "high" -> 3
      [] label = "critical" -> 4

MentionsCriticalKeyword(issue) ==
    \E k \in {"crash", "data loss", "security", "breach"} : Contains(k, Lower(issue))

KnownIssueKeys == {"Can't connect to database", "Database crash", "Slow queries"}

Remedy(key) ==
    CASE key = "Can't connect to database" -> "Check connection string and firewall rules"
      [] key = "Database crash" -> "Verify system resources and restart service"
      [] key = "Slow queries" -> "Analyze query performance and optimize indexes"

DemoIssue == "Can't connect to database after restart"

Scored == ret.tool = "check_severity"
Searched == ret.tool = "search_knowledge_base"

\* C2: check_severity returns as priority_level the table value of the
\* lower-cased severity (low=1, medium=2, high=3, critical=4), raised to
\* max(base, 3) when the lower-cased issue contains "crash", "data loss",
\* "security" or "breach"; severity "critical" gives 4 for every issue, and
\* severity "low" gives 1, or 3 when the issue contains a critical keyword.
C2_PriorityFromTableAndKeywords ==
    Scored =>
        LET label == Lower(args.severity)
            kw == MentionsCriticalKeyword(args.issue)
            p == ret.result.priority_level
        IN  /\ label \in SeverityLabels =>
                 p = IF kw THEN Max(LabelValue(label), 3) ELSE LabelValue(label)
            /\ args.severity = "critical" => p = 4
            /\ args.severity = "low" => p = IF kw THEN 3 ELSE 1

\* C2 witness: severity "critical" with an issue that holds a critical keyword
\* has been scored 4.
C2_Witness ==
    /\ Scored
    /\ args.severity = "critical"
    /\ args.issue = "Database crash"
    /\ ret.result.priority_level = 4

\* C3: every result of check_severity has priority_level in {1,2,3,4},
\* needs_escalation equal to (priority_level >= 3), and estimated_time the
\* decimal text of priority_level * 2 followed by "h": "2h", "4h", "6h", "8h".
C3_ResultShape ==
    Scored =>
        LET p == ret.result.priority_level
        IN  /\ p \in {1, 2, 3, 4}
            /\ ret.result.needs_escalation = (p >= 3)
            /\ ret.result.estimated_time \in {"2h", "4h", "6h", "8h"}
            /\ ret.result.estimated_time =
                   (CASE p = 1 -> "2h" [] p = 2 -> "4h" [] p = 3 -> "6h" [] p = 4 -> "8h"
                      [] OTHER -> "")

\* C3 witness: an issue scored at priority 3, escalated, "6h", by the keyword
\* override of severity "low" (the example score("Database crash", "low")).
C3_Witness ==
    /\ Scored
    /\ args.issue = "Database crash"
    /\ args.severity = "low"
    /\ ret.result = [priority_level |-> 3, needs_escalation |-> TRUE, estimated_time |-> "6h"]

\* C4: when product equals kb.product, search_knowledge_base returns exactly
\* the entries of kb.known_issues whose lower-cased key contains the
\* lower-cased issue, each key mapped to its own remedy, and nothing else;
\* issue "connect" returns only the "Can't connect to database" entry.
C4_SearchExactSubmapping ==
    (Searched /\ args.product = heap[ModuleKb].product) =>
        /\ DOMAIN ret.result =
               {k \in KnownIssueKeys : Contains(Lower(args.issue), Lower(k))}
        /\ \A k \in DOMAIN ret.result : ret.result[k] = Remedy(k)
        /\ args.issue = "connect" =>
               ret.result = ("Can't connect to database" :> "Check connection string and firewall rules")

\* C4 witness: a search whose issue differs in case from the keys it matches
\* has returned two of the three entries.
C4_Witness ==
    /\ Searched
    /\ args.product = "CloudDB"
    /\ args.issue = "Data"
    /\ DOMAIN ret.result = {"Can't connect to database", "Database crash"}

\* C5: for every product that is not exactly kb.product (a product differing
\* only in letter case included) and every issue, search_knowledge_base
\* returns exactly {"error": "Product not found in knowledge base"} and leaves
\* the knowledge base unchanged.
C5_ProductMismatchError ==
    (Searched /\ args.product # "CloudDB") =>
        /\ DOMAIN ret.result = {"error"}
        /\ ret.result["error"] = "Product not found in knowledge base"
        /\ heap[ModuleKb] = KnowledgeBaseLiteral

\* C5 witness: a search for product "clouddb" with an issue that matches a key
\* has returned the error mapping.
C5_Witness ==
    /\ Searched
    /\ args.product = "clouddb"
    /\ args.issue = "connect"
    /\ ret.result = ("error" :> "Product not found in knowledge base")

\* C6: check_severity is total: a severity that, lower-cased, is not "low",
\* "medium", "high" or "critical" (the empty string included) gives the same
\* result as "low" for the same issue; a recognized label in any letter case
\* gives the same result as its lower-case form; an empty issue with an
\* unrecognized severity gives priority 1, no escalation, "2h".
C6_SeverityTotal ==
    Scored =>
        LET label == Lower(args.severity)
        IN  /\ label \notin SeverityLabels =>
                 ret.result = check_severity(args.issue, "low")
            /\ label \in SeverityLabels =>
                 ret.result = check_severity(args.issue, label)
            /\ (args.issue = "" /\ label \notin SeverityLabels) =>
                 ret.result = [priority_level |-> 1, needs_escalation |-> FALSE,
                               estimated_time |-> "2h"]

\* C6 witness: a recognized label in mixed case has been scored (priority 3,
\* without a keyword in the issue).
C6_Witness ==
    /\ Scored
    /\ args.severity = "hiGH"
    /\ args.issue = "Slow queries"
    /\ ret.result.priority_level = 3

\* C10: search_knowledge_base matches the issue inside the key only: an issue
\* contained in no known-issue key returns the empty mapping even when it
\* contains a whole key (the demonstration issue for product "CloudDB" returns
\* no entry), and the empty issue returns every entry of kb.known_issues.
C10_OneDirectionalMatch ==
    (Searched /\ args.product = "CloudDB") =>
        /\ (\A k \in KnownIssueKeys : ~Contains(Lower(args.issue), Lower(k))) =>
               DOMAIN ret.result = {}
        /\ args.issue = DemoIssue => ret.result = EmptyDict
        /\ args.issue = "" =>
               /\ DOMAIN ret.result = KnownIssueKeys
               /\ \A k \in KnownIssueKeys : ret.result[k] = Remedy(k)

\* C10 witness: the demonstration issue, which contains a whole key as a
\* proper substring, has been searched for product "CloudDB" with no entry.
C10_Witness ==
    /\ Searched
    /\ args.product = "CloudDB"
    /\ args.issue = DemoIssue
    /\ \E k \in KnownIssueKeys : Contains(Lower(k), Lower(args.issue)) /\ k # args.issue
    /\ DOMAIN ret.result = {}

(***************************************************************************)
(* Properties of the handler, checked under Spec.                          *)
(***************************************************************************)
Started(q) == pc[q] \in {"running", "returned", "failed"}

\* C1: every SupportResponse handle_support_query returns has priority_level
\* in {1,2,3,4} and escalate true exactly when priority_level >= 3, whatever
\* the agent produced.
C1_ResponseInvariant ==
    \A q \in QueryIds :
        pc[q] = "returned" =>
            /\ response[q].priority_level \in {1, 2, 3, 4}
            /\ response[q].escalate = (response[q].priority_level >= 3)

\* C7: a SupportQuery constructed without an explicit timestamp carries the
\* time of its own construction: its timestamp is not earlier than the moment
\* it was created, and two queries constructed at different times carry
\* different timestamps.
C7_TimestampIsCreationTime ==
    /\ \A q \in QueryIds :
           pc[q] # "none" => query[q].timestamp >= query[q].created_at
    /\ \A q1, q2 \in QueryIds :
           (pc[q1] # "none" /\ pc[q2] # "none"
              /\ query[q1].created_at # query[q2].created_at)
           => query[q1].timestamp # query[q2].timestamp

\* C8: handle_support_query calls agent.run exactly once per query; when that
\* call fails the failure reaches the caller, no SupportResponse is returned,
\* and the handler neither retries nor falls back.
C8_SingleShot ==
    \A q \in QueryIds :
        /\ runs[q] = IF Started(q) THEN 1 ELSE 0
        /\ outcome[q] = "error" => (pc[q] = "failed" /\ response[q] = NoResponse)
        /\ outcome[q] = "data" => (pc[q] = "returned" /\ response[q] \in AgentResponses)
        /\ pc[q] \in {"returned", "failed"} => outcome[q] # "none"

\* C8 witness: a query whose agent call failed after a tool call has ended in
\* failure with one agent.run call and no response.
C8_Witness ==
    \E q \in QueryIds :
        /\ outcome[q] = "error"
        /\ pc[q] = "failed"
        /\ lastCall.tool # "none"
        /\ lastCall.q = q
        /\ runs[q] = 1

\* C9: under any interleaving of queries and tool every query passes
\* to the agent a knowledge base it built itself, no knowledge base (a
\* query's own or the module-level one) is ever written, and the result of
\* each tool call is the one its arguments give on the knowledge base as
\* built, whatever other queries and earlier calls did.
C9_IsolatedKnowledgeBases ==
    /\ \A q \in QueryIds : Started(q) => (deps[q] = q /\ heap[q].alive)
    /\ \A q1, q2 \in QueryIds : (Started(q1) /\ Started(q2) /\ q1 # q2) => deps[q1] # deps[q2]
    /\ \A i \in DOMAIN heap : heap[i].alive => heap[i] = KnowledgeBaseLiteral
    /\ heap[ModuleKb].alive
    /\ lastCall.tool = "search_knowledge_base" =>
           lastCall.result =
               IF lastCall.product # "CloudDB"
               THEN ("error" :> "Product not found in knowledge base")
               ELSE [k \in {x \in KnownIssueKeys : Contains(Lower(lastCall.issue), Lower(x))}
                       |-> Remedy(k)]
    /\ lastCall.tool = "check_severity" =>
           lastCall.result = check_severity(lastCall.issue, lastCall.severity)

\* C9 witness: two queries are in flight at once, each has made tool
\* and the latest call, a search, is the second query's.
C9_Witness ==
    /\ \A q \in QueryIds : q <= 2 => pc[q] = "running"
    /\ lastCall.tool = "search_knowledge_base"
    /\ lastCall.q = 2
    /\ lastCall.product = "CloudDB"

====
